---- MODULE Spec2Model ----
(***************************************************************************)
(* Model of mcp-server-bigquery (src/mcp_server_bigquery/server.py).       *)
(*                                                                         *)
(* Python strings are sequences of one-character strings, so that          *)
(* str.split, str.join, f-string concatenation and repr are computed.      *)
(* Python values that reach the handlers are tagged records                *)
(* [type, v]; a dict is a function from keys to such values.               *)
(***************************************************************************)
EXTENDS Integers, Sequences, FiniteSets, TLC

VARIABLES datasets_filter, project, last, session, posts, emitted, http,
          script, health

vars == <<datasets_filter, project, last, session, posts, emitted, http,
          script, health>>

----------------------------------------------------------------------------
(* Bounds of the model *)

\* longest table_name drawn over the alphabet {"a", "."}
MaxNameLen == 3
\* longest dataset allow-list
MaxFilter == 2
\* the backend client call at which the environment may inject a failure
MaxFaultAt == 2
\* concurrent event-stream connections
MaxSessions == 2
\* POSTs to the messages path in one run
MaxPosts == 2

----------------------------------------------------------------------------
(* String literals of the source and of the environment *)

ErrorPrefix == <<"E","r","r","o","r",":"," ">>
MissingTableName == <<"M","i","s","s","i","n","g"," ","t","a","b","l","e","_","n","a","m","e"," ","a","r","g","u","m","e","n","t">>
MissingQuery == <<"M","i","s","s","i","n","g"," ","q","u","e","r","y"," ","a","r","g","u","m","e","n","t">>
UnknownToolPrefix == <<"U","n","k","n","o","w","n"," ","t","o","o","l",":"," ">>
InvalidTableNamePrefix == <<"I","n","v","a","l","i","d"," ","t","a","b","l","e"," ","n","a","m","e",":"," ">>
ExecuteQueryName == <<"e","x","e","c","u","t","e","-","q","u","e","r","y">>
ListTablesName == <<"l","i","s","t","-","t","a","b","l","e","s">>
DescribeTableName == <<"d","e","s","c","r","i","b","e","-","t","a","b","l","e">>
QueryHead == <<"\n"," "," "," "," "," "," "," "," "," "," "," "," ","S","E","L","E","C","T"," ","d","d","l","\n"," "," "," "," "," "," "," "," "," "," "," "," ","F","R","O","M"," ">>
QueryTail == <<".","I","N","F","O","R","M","A","T","I","O","N","_","S","C","H","E","M","A",".","T","A","B","L","E","S","\n"," "," "," "," "," "," "," "," "," "," "," "," ","W","H","E","R","E"," ","t","a","b","l","e","_","n","a","m","e"," ","="," ","@","t","a","b","l","e","_","n","a","m","e",";","\n"," "," "," "," "," "," "," "," ">>
\* str(AttributeError) when table_name is not a str (CPython's wording)
NoSplitAttr == <<"'","i","n","t","'"," ","o","b","j","e","c","t"," ","h","a","s"," ","n","o"," ","a","t","t","r","i","b","u","t","e"," ","'","s","p","l","i","t","'">>

\* inputs and backend answers used by the bounded runs
Frobnicate == <<"f","r","o","b","n","i","c","a","t","e">>
SelectOne == <<"S","E","L","E","C","T"," ","1">>
FourParts == <<"a",".","b",".","c",".","d">>
PermissionDenied == <<"4","0","3"," ","A","c","c","e","s","s"," ","D","e","n","i","e","d">>
BackendUnavailable == <<"5","0","3"," ","U","n","a","v","a","i","l","a","b","l","e">>
NotFoundPrefix == <<"4","0","4"," ","N","o","t"," ","f","o","u","n","d",":"," ","D","a","t","a","s","e","t"," ">>
Ds1 == <<"d","s","1">>
Ds2 == <<"d","s","2">>
Ds3 == <<"d","s","3">>
T1 == <<"t","1">>
T2 == <<"t","2">>
Ddl == <<"d","d","l">>
CreateT1 == <<"C","R","E","A","T","E"," ","T","A","B","L","E"," ","t","1">>

Dot == "."
Quote == "'"

----------------------------------------------------------------------------
(* Python built-ins, computed as CPython computes them *)

\* str.split(".") : a separator never disappears, "" splits into [""]
RECURSIVE SplitAcc(_, _, _)
SplitAcc(s, cur, acc) ==
    IF s = <<>> THEN Append(acc, cur)
    ELSE IF Head(s) = Dot THEN SplitAcc(Tail(s), <<>>, Append(acc, cur))
    ELSE SplitAcc(Tail(s), Append(cur, Head(s)), acc)

\* mutant of split: empty components dropped, as str.split() without a separator
split_dropempty(s) == SelectSeq(SplitAcc(s, <<>>, <<>>), LAMBDA part : part # <<>>)

split(s) == SplitAcc(s, <<>>, <<>>)

\* sep.join(parts)
RECURSIVE join(_, _)
join(sep, parts) ==
    IF parts = <<>> THEN <<>>
    ELSE IF Len(parts) = 1 THEN parts[1]
    ELSE parts[1] \o sep \o join(sep, Tail(parts))

\* repr of a str that holds no quote and no escape: '...'
ReprStr(s) == <<Quote>> \o s \o <<Quote>>

\* repr of a dict of str to str, in insertion order: {'k': 'v', ...}
ReprRow(row) ==
    <<"{">>
    \o join(<<",", " ">>,
            [i \in 1..Len(row) |-> ReprStr(row[i].col) \o <<":", " ">> \o ReprStr(row[i].val)])
    \o <<"}">>

\* str(list) : [e1, e2, ...] with each element's repr
StrList(reprs) == <<"[">> \o join(<<",", " ">>, reprs) \o <<"]">>

\* str(results) for a list[str] (list_tables) or a list[dict] (execute_query)
str(results) ==
    IF results.type = "names"
    THEN StrList([i \in 1..Len(results.v) |-> ReprStr(results.v[i])])
    ELSE StrList([i \in 1..Len(results.v) |-> ReprRow(results.v[i])])

\* F applied to the value of e, e being evaluated once
Once(e, F(_)) == CHOOSE y \in {F(x) : x \in {e}} : TRUE

\* a call's outcome: it returns a value or raises exc with str(exc) = msg
Return(value) == [kind |-> "return", value |-> value, exc |-> "", msg |-> <<>>]
Raise(exc, msg) == [kind |-> "raise", value |-> <<>>, exc |-> exc, msg |-> msg]

\* the exception classes the model raises; all derive from Exception
ExceptionClasses == {"ValueError", "AttributeError", "GoogleAPIError"}

----------------------------------------------------------------------------
(* The BigQuery client (google.cloud.bigquery.Client), the environment of  *)
(* BigQueryDatabase.  project is what the backend holds: a sequence of     *)
(* [dataset_id, tables] in the backend's enumeration order.  env is the    *)
(* environment's choice for one tool invocation: env.fault.at = n > 0      *)
(* makes the n-th client call of the invocation raise with message         *)
(* env.fault.msg, env.rows is the result set a query returns.  Every call  *)
(* is appended to the invocation's log of client calls.                    *)

ClientCall(op, arg, params) == [op |-> op, arg |-> arg, params |-> params]

Injected(env, log) == env.fault.at = Len(log)

DatasetIds == [i \in 1..Len(project) |-> project[i].dataset_id]

HasDataset(dataset_id) == \E i \in 1..Len(project) : project[i].dataset_id = dataset_id

TablesOf(dataset_id) ==
    project[CHOOSE i \in 1..Len(project) : project[i].dataset_id = dataset_id].tables

\* self.client.query(query[, job_config]) followed by job.result()
client_query(query, params, env, log) ==
    LET log1 == Append(log, ClientCall("query", query, params))
    IN  IF Injected(env, log1)
        THEN [out |-> Raise("GoogleAPIError", env.fault.msg), client |-> log1]
        ELSE [out |-> Return(env.rows), client |-> log1]

\* list(self.client.list_datasets())
client_list_datasets(env, log) ==
    LET log1 == Append(log, ClientCall("list_datasets", <<>>, <<>>))
    IN  IF Injected(env, log1)
        THEN [out |-> Raise("GoogleAPIError", env.fault.msg), client |-> log1]
        ELSE [out |-> Return(DatasetIds), client |-> log1]

\* iterating self.client.list_tables(dataset_id); an unknown dataset is NotFound
client_list_tables(dataset_id, env, log) ==
    LET log1 == Append(log, ClientCall("list_tables", dataset_id, <<>>))
    IN  IF Injected(env, log1)
        THEN [out |-> Raise("GoogleAPIError", env.fault.msg), client |-> log1]
        ELSE IF ~HasDataset(dataset_id)
        THEN [out |-> Raise("GoogleAPIError", NotFoundPrefix \o dataset_id), client |-> log1]
        ELSE [out |-> Return(TablesOf(dataset_id)), client |-> log1]

----------------------------------------------------------------------------
(* class BigQueryDatabase *)

\* execute_query: the except clause logs and re-raises
execute_query(query, params, env, log) ==
    LET r == client_query(query, params, env, log)
    IN  IF r.out.kind = "raise"
        THEN r
        ELSE [out |-> Return([type |-> "rows", v |-> r.out.value]), client |-> r.client]

\* the for loop of list_tables over the selected datasets
RECURSIVE ListTablesLoop(_, _, _, _)
ListTablesLoop(datasets, tables, env, log) ==
    IF datasets = <<>>
    THEN [out |-> Return([type |-> "names", v |-> tables]), client |-> log]
    ELSE LET dataset_id == Head(datasets)
             Extend(r) ==
                 IF r.out.kind = "raise"
                 THEN r
                 ELSE ListTablesLoop(
                          Tail(datasets),
                          tables \o [i \in 1..Len(r.out.value) |->
                                        dataset_id \o <<Dot>> \o r.out.value[i]],
                          env, r.client)
         IN  Once(client_list_tables(dataset_id, env, log), Extend)

\* mutant of list_tables: the allow-list is ignored
list_tables_nofilter(env) ==
    LET d == client_list_datasets(env, <<>>)
    IN  IF d.out.kind = "raise"
        THEN d
        ELSE ListTablesLoop(d.out.value, <<>>, env, d.client)

\* list_tables: the allow-list when it is non-empty, else every dataset
list_tables(env) ==
    IF datasets_filter # <<>>
    THEN ListTablesLoop(datasets_filter, <<>>, env, <<>>)
    ELSE LET Scan(d) ==
                 IF d.out.kind = "raise"
                 THEN d
                 ELSE ListTablesLoop(d.out.value, <<>>, env, d.client)
         IN  Once(client_list_datasets(env, <<>>), Scan)

\* describe_table
describe_table(table_name, env) ==
    IF table_name.type # "str"
    THEN [out |-> Raise("AttributeError", NoSplitAttr), client |-> <<>>]
    ELSE LET parts == split(table_name.v)
         IN  IF Len(parts) # 2 /\ Len(parts) # 3
             THEN [out |-> Raise("ValueError", InvalidTableNamePrefix \o table_name.v),
                   client |-> <<>>]
             ELSE LET dataset_id == join(<<Dot>>, SubSeq(parts, 1, Len(parts) - 1))
                      table_id == parts[Len(parts)]
                      query == QueryHead \o dataset_id \o QueryTail
                  IN  execute_query(query, <<table_id>>, env, <<>>)

----------------------------------------------------------------------------
(* The handlers registered on the server in main() *)

Tool(name, properties, required) ==
    [name |-> name, properties |-> properties, required |-> required]

\* mutant of handle_list_tools: the descriptors change places
handle_list_tools_reordered ==
    << Tool(ListTablesName, <<>>, <<>>),
       Tool(ExecuteQueryName, <<[field |-> "query", type |-> "string"]>>, <<"query">>),
       Tool(DescribeTableName, <<[field |-> "table_name", type |-> "string"]>>, <<"table_name">>) >>

\* mutant of handle_list_tools: a fourth tool is advertised that the dispatcher lacks
handle_list_tools_extra ==
    << Tool(ExecuteQueryName, <<[field |-> "query", type |-> "string"]>>, <<"query">>),
       Tool(ListTablesName, <<>>, <<>>),
       Tool(DescribeTableName, <<[field |-> "table_name", type |-> "string"]>>, <<"table_name">>),
       Tool(Frobnicate, <<>>, <<>>) >>

\* handle_list_tools: the catalog, built anew from literals on every call
handle_list_tools ==
    << Tool(ExecuteQueryName, <<[field |-> "query", type |-> "string"]>>, <<"query">>),
       Tool(ListTablesName, <<>>, <<>>),
       Tool(DescribeTableName, <<[field |-> "table_name", type |-> "string"]>>, <<"table_name">>) >>

TextContent(text) == [type |-> "text", text |-> text]

\* arguments: dict[str, Any] | None
None == [present |-> FALSE, map |-> <<>>]
Dict(map) == [present |-> TRUE, map |-> map]

\* mutant of Falsy: the test is inverted ("if arguments" for "if not arguments")
Falsy_inverted(arguments) == arguments.present /\ DOMAIN arguments.map # {}

\* Python truth value of arguments: None and {} are falsy
Falsy(arguments) == ~arguments.present \/ DOMAIN arguments.map = {}

FacadeCall(op, arg) == [op |-> op, arg |-> arg]

NoCalls == [facade |-> <<>>, client |-> <<>>]

\* one branch of the try block: call the facade, wrap str(results)
Rendered(results, facade) ==
    LET Wrap(r) ==
            [out |-> IF r.out.kind = "raise" THEN r.out
                     ELSE Return(<<TextContent(str(r.out.value))>>),
             facade |-> facade, client |-> r.client]
    IN  Once(results, Wrap)

\* the try block of handle_call_tool
CallToolBody(name, arguments, env) ==
    IF name = ListTablesName
    THEN Rendered(list_tables(env), <<FacadeCall("list_tables", <<>>)>>)
    ELSE IF name = DescribeTableName
    THEN IF Falsy(arguments) \/ "table_name" \notin DOMAIN arguments.map
         THEN [out |-> Raise("ValueError", MissingTableName),
               facade |-> <<>>, client |-> <<>>]
         ELSE Rendered(describe_table(arguments.map["table_name"], env),
                       <<FacadeCall("describe_table", arguments.map["table_name"])>>)
    ELSE IF name = ExecuteQueryName
    THEN IF Falsy(arguments) \/ "query" \notin DOMAIN arguments.map
         THEN [out |-> Raise("ValueError", MissingQuery),
               facade |-> <<>>, client |-> <<>>]
         ELSE Rendered(execute_query(arguments.map["query"].v, <<>>, env, <<>>),
                       <<FacadeCall("execute_query", arguments.map["query"])>>)
    ELSE [out |-> Raise("ValueError", UnknownToolPrefix \o name),
          facade |-> <<>>, client |-> <<>>]

NoException == [exc |-> "", msg |-> <<>>]

\* mutant of handle_call_tool: the except clause names ValueError only
handle_call_tool_valueerror(name, arguments, env) ==
    LET b == CallToolBody(name, arguments, env)
    IN  IF b.out.kind = "raise" /\ b.out.exc = "ValueError"
        THEN [out |-> Return(<<TextContent(ErrorPrefix \o b.out.msg)>>),
              caught |-> [exc |-> b.out.exc, msg |-> b.out.msg],
              facade |-> b.facade, client |-> b.client]
        ELSE [out |-> b.out, caught |-> NoException,
              facade |-> b.facade, client |-> b.client]

\* handle_call_tool: except Exception turns what the try block raised into
\* one TextContent; caught records the exception the except clause handled
handle_call_tool(name, arguments, env) ==
    LET Except(b) ==
            IF b.out.kind = "raise" /\ b.out.exc \in ExceptionClasses
            THEN [out |-> Return(<<TextContent(ErrorPrefix \o b.out.msg)>>),
                  caught |-> [exc |-> b.out.exc, msg |-> b.out.msg],
                  facade |-> b.facade, client |-> b.client]
            ELSE [out |-> b.out, caught |-> NoException,
                  facade |-> b.facade, client |-> b.client]
    IN  Once(CallToolBody(name, arguments, env), Except)

----------------------------------------------------------------------------
(* Inputs of the bounded runs *)

Alphabet == {"a", Dot}

\* every table_name over the alphabet up to MaxNameLen, and two longer ones
TableNames ==
    UNION {[1..k -> Alphabet] : k \in 0..MaxNameLen} \cup {FourParts, Ds1 \o <<Dot>> \o T1}

Str(s) == [type |-> "str", v |-> s]
Int7 == [type |-> "int", v |-> <<"7">>]

ArgValues == {Str(s) : s \in TableNames \cup {SelectOne}} \cup {Int7}

PairValues == {Str(<<"a", Dot, "a">>), Str(SelectOne), Int7}

\* absent, empty, one key with any value, two keys with a few values
ArgumentsSet ==
    {None, Dict(<<>>)}
    \cup {Dict([k \in {key} |-> v]) : key \in {"table_name", "query"}, v \in ArgValues}
    \cup {Dict([k \in {"limit"} |-> Int7])}
    \cup UNION {{Dict([k \in {k1, k2} |-> IF k = k1 THEN v1 ELSE v2]) :
                     v1 \in PairValues, v2 \in PairValues} :
                <<k1, k2>> \in {<<"table_name", "query">>, <<"table_name", "limit">>,
                                <<"query", "limit">>}}

ToolNames ==
    {ExecuteQueryName, ListTablesName, DescribeTableName,
     Frobnicate, <<>>, SubSeq(ListTablesName, 1, Len(ListTablesName) - 1)}

BackendMessages == {PermissionDenied, BackendUnavailable}

NoFault == [at |-> 0, msg |-> <<>>]

Faults == {NoFault} \cup {[at |-> n, msg |-> m] : n \in 1..MaxFaultAt, m \in BackendMessages}

RowSets == {<<>>, << <<[col |-> Ddl, val |-> CreateT1]>> >>}

Envs == {[fault |-> f, rows |-> r] : f \in Faults, r \in RowSets}

Dataset(dataset_id, tables) == [dataset_id |-> dataset_id, tables |-> tables]

Projects ==
    { <<>>,
      <<Dataset(Ds1, <<T1, T2>>)>>,
      <<Dataset(Ds2, <<T2>>), Dataset(Ds1, <<T2, T1>>)>> }

\* allow-lists: sequences of dataset names, Ds3 being in no project
Filters == UNION {[1..k -> {Ds1, Ds2, Ds3}] : k \in 0..MaxFilter}

----------------------------------------------------------------------------
(* State *)

SessionIds == 1..MaxSessions

NewSession ==
    [state |-> "None", inbox |-> <<>>, inflight |-> {}, accepted |-> <<>>,
     outbox |-> <<>>, calls |-> <<>>]

\* no request to the health paths yet
NoProbe == [path |-> "", status |-> 0, body |-> [status |-> "", service |-> ""]]

NotCalled ==
    [called |-> FALSE, name |-> <<>>, arguments |-> None,
     result |-> [out |-> Return(<<>>), caught |-> NoException,
                 facade |-> <<>>, client |-> <<>>]]

\* main(): db = BigQueryDatabase(..., datasets_filter), before any invocation
InitDispatch ==
    /\ datasets_filter \in Filters
    /\ project \in Projects
    /\ last = NotCalled
    /\ session = [s \in SessionIds |-> NewSession]
    /\ posts = 0
    /\ emitted = <<>>
    /\ http = <<>>
    /\ script = <<>>
    /\ health = NoProbe

\* main() with transport "http": the server listens, no connection yet
Init ==
    /\ datasets_filter \in {<<>>, <<Ds1>>}
    /\ project = <<Dataset(Ds2, <<T2>>), Dataset(Ds1, <<T2, T1>>)>>
    /\ last = NotCalled
    /\ session = [s \in SessionIds |-> NewSession]
    /\ posts = 0
    /\ emitted = <<>>
    /\ http = <<>>
    /\ script = <<>>
    /\ health = NoProbe

\* one tool invocation handed to handle_call_tool
CallTool ==
    /\ ~last.called
    /\ \E name \in ToolNames, arguments \in ArgumentsSet, env \in Envs :
          last' = [called |-> TRUE, name |-> name, arguments |-> arguments,
                   result |-> handle_call_tool(name, arguments, env)]
    /\ UNCHANGED <<datasets_filter, project, script, health, session, posts, emitted, http>>

NextDispatch == CallTool

SpecDispatch == InitDispatch /\ [][NextDispatch]_vars

----------------------------------------------------------------------------
(* The HTTP binding: handle_sse, handle_post and the session each event    *)
(* stream runs.  session[s] is the connection s of GET /messages:          *)
(*   state    where the connection is in handle_sse                        *)
(*   inbox    streams[0], the client messages POSTed and not yet read      *)
(*   accepted the sequence numbers of the messages put into inbox          *)
(*   inflight the requests read from inbox and not yet answered            *)
(*   outbox   streams[1], the frames sent over the event stream            *)
(*   calls    the backend client calls made for the requests of s          *)
(* posts counts the POSTs, which numbers the client messages in the order  *)
(* the process received them; http is the sequence of HTTP responses to    *)
(* them; emitted is the order in which requests were answered.             *)

\* InitializationOptions(server_name, server_version, capabilities): the
\* capabilities follow from the handlers registered (list_tools, call_tool)
InitializationOptions ==
    [server_name |-> "bigquery", server_version |-> "0.3.0",
     capabilities |-> [tools |-> TRUE, resources |-> FALSE, prompts |-> FALSE,
                       experimental |-> {}]]

Frame(kind, seq, body) == [kind |-> kind, seq |-> seq, body |-> body]

ListRequest == [method |-> "tools/list", name |-> <<>>, arguments |-> None]

CallRequest(name, arguments) == [method |-> "tools/call", name |-> name, arguments |-> arguments]

\* the client messages of the bounded runs
ClientMessages == {ListRequest, CallRequest(ListTablesName, None)}

SessionEnvs == {[fault |-> f, rows |-> <<>>] : f \in {NoFault, [at |-> 1, msg |-> PermissionDenied]}}

Open(sess) == sess.state \in {"Connecting", "Initialized", "Serving"}

\* GET /messages: handle_sse is entered and sse.connect_sse sets the streams up
handle_sse_connect(s) ==
    /\ session[s].state = "None"
    /\ session' = [session EXCEPT ![s].state = "Connecting"]
    /\ UNCHANGED <<datasets_filter, project, script, health, last, posts, emitted, http>>

\* mutant of RunSession: the identity is advertised twice
RunSession_twice(sess) ==
    [sess EXCEPT !.state = "Initialized",
                 !.outbox = @ \o <<Frame("initialize", 0, InitializationOptions),
                                   Frame("initialize", 0, InitializationOptions)>>]

\* server.run(streams[0], streams[1], InitializationOptions(...)) is started
RunSession(sess) ==
    [sess EXCEPT !.state = "Initialized",
                 !.outbox = Append(@, Frame("initialize", 0, InitializationOptions))]

handle_sse_run(s) ==
    /\ session[s].state = "Connecting"
    /\ session' = [session EXCEPT ![s] = RunSession(@)]
    /\ UNCHANGED <<datasets_filter, project, script, health, last, posts, emitted, http>>

\* the session runner starts to answer requests
BeginServing(s) ==
    /\ session[s].state = "Initialized"
    /\ session' = [session EXCEPT ![s].state = "Serving"]
    /\ UNCHANGED <<datasets_filter, project, script, health, last, posts, emitted, http>>

\* mutant of Deliver: the message is put in front of the queued ones
Deliver_front(sess, r) ==
    IF sess.state \in {"Initialized", "Serving"}
    THEN [sess EXCEPT !.inbox = <<r>> \o @, !.accepted = Append(@, r.seq)]
    ELSE sess

\* sse.handle_post_message: the message goes to the inbound channel of the
\* connection the POST names; a connection that ended has no channel
Deliver(sess, r) ==
    IF sess.state \in {"Initialized", "Serving"}
    THEN [sess EXCEPT !.inbox = Append(@, r), !.accepted = Append(@, r.seq)]
    ELSE sess

\* mutant of PostResponse: 200 OK
PostResponse_ok == [status |-> 200, body |-> <<>>]

\* Response(status_code=202)
PostResponse == [status |-> 202, body |-> <<>>]

\* POST /messages for connection s: hand the message over, answer at once
handle_post(s, msg) ==
    /\ posts < MaxPosts
    /\ session[s].state \in {"Initialized", "Serving", "Closed"}
    /\ LET r == [seq |-> posts + 1, method |-> msg.method, name |-> msg.name,
                 arguments |-> msg.arguments]
       IN  /\ session' = [session EXCEPT ![s] = Deliver(@, r)]
           /\ http' = Append(http, [session |-> s, seq |-> r.seq,
                                    delivered |-> Open(session[s]),
                                    status |-> PostResponse.status,
                                    body |-> PostResponse.body])
    /\ posts' = posts + 1
    /\ UNCHANGED <<datasets_filter, project, script, health, last, emitted>>

\* mutant of Receive: a request is read while another is being processed
Receive_overlap(s) ==
    /\ session[s].state = "Serving"
    /\ session[s].inbox # <<>>
    /\ session' = [session EXCEPT ![s].inbox = Tail(@),
                                  ![s].inflight = @ \cup {Head(session[s].inbox)}]
    /\ UNCHANGED <<datasets_filter, project, script, health, last, posts, emitted, http>>

\* the session runner reads the next request when none is being processed
Receive(s) ==
    /\ session[s].state = "Serving"
    /\ session[s].inflight = {}
    /\ session[s].inbox # <<>>
    /\ session' = [session EXCEPT ![s].inbox = Tail(@),
                                  ![s].inflight = @ \cup {Head(session[s].inbox)}]
    /\ UNCHANGED <<datasets_filter, project, script, health, last, posts, emitted, http>>

\* the registered handler of a request: the frame its result becomes and
\* the backend client calls it made
Served(r, env) ==
    IF r.method = "tools/list"
    THEN [frame |-> Frame("tools/list", r.seq, handle_list_tools), client |-> <<>>]
    ELSE LET Result(res) ==
                 [frame |-> IF res.out.kind = "return"
                            THEN Frame("tools/call", r.seq, res.out.value)
                            ELSE Frame("error", r.seq, res.out.msg),
                  client |-> res.client]
         IN  Once(handle_call_tool(r.name, r.arguments, env), Result)

Answer(r, env) == Served(r, env).frame

\* the session runner calls the handler of request r, the backend behaving
\* as env, and sends its result over the stream
RespondWith(s, r, env) ==
    /\ session[s].state = "Serving"
    /\ r \in session[s].inflight
    /\ LET Send(a) == [session EXCEPT ![s].inflight = @ \ {r},
                                      ![s].outbox = Append(@, a.frame),
                                      ![s].calls = @ \o a.client]
       IN  session' = Once(Served(r, env), Send)
    /\ emitted' = Append(emitted, r.seq)
    /\ UNCHANGED <<datasets_filter, project, script, health, last, posts, http>>

Respond(s) ==
    \E r \in session[s].inflight, env \in SessionEnvs : RespondWith(s, r, env)

\* mutant of handle_sse_exit: the end of one connection ends every connection
handle_sse_exit_all(s) ==
    [t \in SessionIds |->
        IF Open(session[t])
        THEN [session[t] EXCEPT !.state = "Closed", !.inbox = <<>>, !.inflight = {}]
        ELSE session[t]]

\* leaving the async with block of handle_sse: server.run returned or raised,
\* the streams of this connection are closed
handle_sse_exit(s) ==
    [session EXCEPT ![s] = [@ EXCEPT !.state = "Closed", !.inbox = <<>>,
                                     !.inflight = {}]]

\* the client disconnects, the session is terminated or the transport faults:
\* server.run of connection s ends
Close(s) ==
    /\ Open(session[s])
    /\ session' = handle_sse_exit(s)
    /\ UNCHANGED <<datasets_filter, project, script, health, last, posts, emitted, http>>

Next ==
    \/ \E s \in SessionIds : handle_sse_connect(s)
    \/ \E s \in SessionIds : handle_sse_run(s)
    \/ \E s \in SessionIds : BeginServing(s)
    \/ \E s \in SessionIds, msg \in ClientMessages : handle_post(s, msg)
    \/ \E s \in SessionIds : Receive(s)
    \/ \E s \in SessionIds : Respond(s)
    \/ \E s \in SessionIds : Close(s)

Spec == Init /\ [][Next]_vars

----------------------------------------------------------------------------
(* The local binding: stdio_server and the session it runs over the        *)
(* standard streams.  To compare the two bindings one client script is     *)
(* played to a run of each: session[1] is the run behind GET /messages of  *)
(* a process started with transport "http", session[2] the run of a        *)
(* process started with the default transport.  script[k] is the k-th      *)
(* request of the client and the behaviour of the backend while that       *)
(* request is served; both runs number the requests as the client does.    *)

Runs == 1..2

BindingOf(s) == IF s = 1 THEN "sse" ELSE "stdio"

\* mutant of StdioInitializationOptions: the version of an earlier release
StdioInitializationOptions_old ==
    [server_name |-> "bigquery", server_version |-> "0.2.0",
     capabilities |-> [tools |-> TRUE, resources |-> FALSE, prompts |-> FALSE,
                       experimental |-> {}]]

\* InitializationOptions(...) as written in the stdio branch
StdioInitializationOptions ==
    [server_name |-> "bigquery", server_version |-> "0.3.0",
     capabilities |-> [tools |-> TRUE, resources |-> FALSE, prompts |-> FALSE,
                       experimental |-> {}]]

\* the requests of the scripts
ScriptMessages ==
    ClientMessages
    \cup {CallRequest(ExecuteQueryName, Dict([k \in {"query"} |-> Str(SelectOne)]))}

ScriptSteps == [msg : ScriptMessages, env : SessionEnvs]

Scripts == UNION {[1..n -> ScriptSteps] : n \in 0..MaxPosts}

\* the two processes are started with the same configuration and the client
\* is about to play the same script to each
InitBindings ==
    /\ datasets_filter \in {<<>>, <<Ds1>>}
    /\ project = <<Dataset(Ds2, <<T2>>), Dataset(Ds1, <<T2, T1>>)>>
    /\ last = NotCalled
    /\ session = [s \in SessionIds |-> NewSession]
    /\ posts = 0
    /\ emitted = <<>>
    /\ http = <<>>
    /\ script \in Scripts
    /\ health = NoProbe

\* async with mcp.server.stdio.stdio_server() is entered
stdio_server(s) ==
    /\ BindingOf(s) = "stdio"
    /\ session[s].state = "None"
    /\ session' = [session EXCEPT ![s].state = "Connecting"]
    /\ UNCHANGED <<datasets_filter, project, script, health, last, posts, emitted, http>>

\* server.run(read_stream, write_stream, InitializationOptions(...)) is started
RunStdioSession(sess) ==
    [sess EXCEPT !.state = "Initialized",
                 !.outbox = Append(@, Frame("initialize", 0, StdioInitializationOptions))]

stdio_run(s) ==
    /\ BindingOf(s) = "stdio"
    /\ session[s].state = "Connecting"
    /\ session' = [session EXCEPT ![s] = RunStdioSession(@)]
    /\ UNCHANGED <<datasets_filter, project, script, health, last, posts, emitted, http>>

\* the next request of the script arrives on standard input and is put on
\* read_stream
stdin_read(s) ==
    /\ BindingOf(s) = "stdio"
    /\ session[s].state \in {"Initialized", "Serving"}
    /\ Len(session[s].accepted) < Len(script)
    /\ LET k == Len(session[s].accepted) + 1
           r == [seq |-> k, method |-> script[k].msg.method,
                 name |-> script[k].msg.name, arguments |-> script[k].msg.arguments]
       IN  session' = [session EXCEPT ![s].inbox = Append(@, r),
                                      ![s].accepted = Append(@, r.seq)]
    /\ UNCHANGED <<datasets_filter, project, script, health, last, posts, emitted, http>>

\* standard input ends: server.run returns and the stdio_server block is left
stdio_exit(s) ==
    /\ BindingOf(s) = "stdio"
    /\ Open(session[s])
    /\ session' = [session EXCEPT ![s] = [@ EXCEPT !.state = "Closed", !.inbox = <<>>,
                                                   !.inflight = {}]]
    /\ UNCHANGED <<datasets_filter, project, script, health, last, posts, emitted, http>>

\* the next request of the script is POSTed for the event-stream run
post_script(s) ==
    /\ BindingOf(s) = "sse"
    /\ posts < Len(script)
    /\ handle_post(s, script[posts + 1].msg)

\* a request of the script is answered, the backend behaving as scripted
respond_script(s) ==
    \E r \in session[s].inflight : RespondWith(s, r, script[r.seq].env)

NextBindings ==
    \/ \E s \in Runs : BindingOf(s) = "sse" /\ handle_sse_connect(s)
    \/ \E s \in Runs : BindingOf(s) = "sse" /\ handle_sse_run(s)
    \/ \E s \in Runs : post_script(s)
    \/ \E s \in Runs : BindingOf(s) = "sse" /\ Close(s)
    \/ \E s \in Runs : stdio_server(s)
    \/ \E s \in Runs : stdio_run(s)
    \/ \E s \in Runs : stdin_read(s)
    \/ \E s \in Runs : stdio_exit(s)
    \/ \E s \in Runs : BeginServing(s)
    \/ \E s \in Runs : Receive(s)
    \/ \E s \in Runs : respond_script(s)

SpecBindings == InitBindings /\ [][NextBindings]_vars

----------------------------------------------------------------------------
(* The health routes.  health is the response to the latest GET of "/" or  *)
(* "/health".  NextApp is every route of the Starlette application: the    *)
(* two routes of /messages, which are Next, and the two health routes.     *)

HealthPaths == {"/", "/health"}

\* mutant of HealthResponse: unhealthy once a tool invocation failed
HealthResponse_backend ==
    IF \E s \in SessionIds : \E i \in 1..Len(session[s].outbox) :
           /\ session[s].outbox[i].kind = "tools/call"
           /\ SubSeq(session[s].outbox[i].body[1].text, 1, Len(ErrorPrefix)) = ErrorPrefix
    THEN [status |-> 503,
          body |-> [status |-> "unhealthy", service |-> "bigquery-mcp-server"]]
    ELSE [status |-> 200,
          body |-> [status |-> "healthy", service |-> "bigquery-mcp-server"]]

\* JSONResponse({"status": "healthy", "service": "bigquery-mcp-server"})
HealthResponse ==
    [status |-> 200,
     body |-> [status |-> "healthy", service |-> "bigquery-mcp-server"]]

\* GET / and GET /health
handle_health(path) ==
    /\ health' = [path |-> path, status |-> HealthResponse.status,
                  body |-> HealthResponse.body]
    /\ UNCHANGED <<datasets_filter, project, script, last, session, posts, emitted, http>>

NextApp ==
    \/ Next
    \/ \E path \in HealthPaths : handle_health(path)

SpecApp == Init /\ [][NextApp]_vars

----------------------------------------------------------------------------
(* Helpers of the properties *)

HasPrefix(s, p) == Len(s) >= Len(p) /\ SubSeq(s, 1, Len(p)) = p

Contains(s, sub) ==
    \E i \in 1..(Len(s) + 1) :
        i + Len(sub) - 1 <= Len(s) /\ SubSeq(s, i, i + Len(sub) - 1) = sub

\* the items of a one-TextContent result
OneText(result) ==
    /\ result.out.kind = "return"
    /\ Len(result.out.value) = 1
    /\ result.out.value[1].type = "text"

TextOf(result) == result.out.value[1].text

Range(seq) == {seq[i] : i \in 1..Len(seq)}

----------------------------------------------------------------------------
(* Properties of the dispatcher, checked under SpecDispatch *)

PermissionDeniedText ==
    <<"E","r","r","o","r",":"," ","4","0","3"," ","A","c","c","e","s","s"," ","D","e","n","i","e","d">>

\* C1: handle_call_tool never raises past its boundary and returns exactly one
\* content item, a TextContent; when a backend call or a validation step failed
\* with message m, the item's text is exactly "Error: " followed by m.
C1_DispatchTotal ==
    last.called =>
        /\ OneText(last.result)
        /\ last.result.caught # NoException =>
               TextOf(last.result) = <<"E","r","r","o","r",":"," ">> \o last.result.caught.msg

\* C1 witness: execute-query {query: "SELECT 1"} against a permission fault
C1_Witness ==
    /\ last.called
    /\ last.name = ExecuteQueryName
    /\ last.arguments = Dict([k \in {"query"} |-> Str(SelectOne)])
    /\ last.result.caught = [exc |-> "GoogleAPIError", msg |-> PermissionDenied]
    /\ OneText(last.result)
    /\ TextOf(last.result) = PermissionDeniedText

CatalogNames == {handle_list_tools[i].name : i \in 1..Len(handle_list_tools)}

UnknownToolText == <<"E","r","r","o","r",":"," ","U","n","k","n","o","w","n"," ","t","o","o","l",":"," ">>

\* C2: a name outside the catalog yields exactly "Error: Unknown tool: " + name
\* and no backend operation; a catalog name never yields the Unknown tool error.
C2_CatalogDispatcherAgree ==
    last.called =>
        /\ last.name \notin CatalogNames =>
               /\ OneText(last.result)
               /\ TextOf(last.result) = UnknownToolText \o last.name
               /\ last.result.facade = <<>>
               /\ last.result.client = <<>>
        /\ last.name \in CatalogNames =>
               /\ OneText(last.result)
               /\ ~HasPrefix(TextOf(last.result), UnknownToolText)
               /\ last.result.caught.exc = "ValueError" =>
                      ~HasPrefix(last.result.caught.msg, UnknownToolPrefix)

\* C2 witness: dispatch of "frobnicate"
C2_Witness ==
    /\ last.called
    /\ last.name = Frobnicate
    /\ OneText(last.result)
    /\ TextOf(last.result) = UnknownToolText \o <<"f","r","o","b","n","i","c","a","t","e">>

MissingTableNameText ==
    <<"E","r","r","o","r",":"," ","M","i","s","s","i","n","g"," ","t","a","b","l","e","_","n","a","m","e"," ","a","r","g","u","m","e","n","t">>

MissingQueryText ==
    <<"E","r","r","o","r",":"," ","M","i","s","s","i","n","g"," ","q","u","e","r","y"," ","a","r","g","u","m","e","n","t">>

HasKey(arguments, key) == arguments.present /\ key \in DOMAIN arguments.map

\* C3: describe-table without table_name (arguments absent, empty or lacking the
\* key) yields exactly "Error: Missing table_name argument", execute-query without
\* query yields "Error: Missing query argument"; the facade operation is called
\* exactly when the key is present, once, with the key's value.
C3_RequiredArguments ==
    last.called =>
        /\ last.name = DescribeTableName =>
               IF HasKey(last.arguments, "table_name")
               THEN last.result.facade =
                        <<FacadeCall("describe_table", last.arguments.map["table_name"])>>
               ELSE /\ OneText(last.result)
                    /\ TextOf(last.result) = MissingTableNameText
                    /\ last.result.facade = <<>>
                    /\ last.result.client = <<>>
        /\ last.name = ExecuteQueryName =>
               IF HasKey(last.arguments, "query")
               THEN /\ last.result.facade =
                          <<FacadeCall("execute_query", last.arguments.map["query"])>>
                    /\ Len(last.result.client) = 1
                    /\ last.result.client[1].op = "query"
               ELSE /\ OneText(last.result)
                    /\ TextOf(last.result) = MissingQueryText
                    /\ last.result.facade = <<>>
                    /\ last.result.client = <<>>

\* C3 witness: describe-table with arguments {}
C3_Witness ==
    /\ last.called
    /\ last.name = DescribeTableName
    /\ last.arguments = Dict(<<>>)
    /\ OneText(last.result)
    /\ TextOf(last.result) = MissingTableNameText
    /\ last.result.facade = <<>>

\* the number of '.'-separated components of a name: its dots plus one
Components(s) == Cardinality({i \in 1..Len(s) : s[i] = "."}) + 1

\* C4: describe_table raises the Invalid table name ValueError exactly when the
\* name has neither 2 nor 3 components; a rejected name issues no backend query
\* and the dispatcher's text contains "Invalid table name"; an accepted name
\* issues one query.
C4_QualifiedName ==
    (/\ last.called
     /\ last.name = DescribeTableName
     /\ HasKey(last.arguments, "table_name")
     /\ last.arguments.map["table_name"].type = "str") =>
        LET table_name == last.arguments.map["table_name"].v
            rejected == last.result.caught.exc = "ValueError"
        IN  /\ rejected <=> Components(table_name) \notin {2, 3}
            /\ rejected =>
                   /\ last.result.client = <<>>
                   /\ OneText(last.result)
                   /\ HasPrefix(TextOf(last.result), <<"E","r","r","o","r",":"," ">>)
                   /\ Contains(TextOf(last.result),
                               <<"I","n","v","a","l","i","d"," ","t","a","b","l","e"," ","n","a","m","e">>)
            /\ ~rejected =>
                   /\ Len(last.result.client) = 1
                   /\ last.result.client[1].op = "query"

\* C4 witness: describe-table {table_name: "a.b.c.d"} is rejected
C4_Witness ==
    /\ last.called
    /\ last.name = DescribeTableName
    /\ last.arguments = Dict([k \in {"table_name"} |-> Str(<<"a",".","b",".","c",".","d">>)])
    /\ last.result.caught.exc = "ValueError"
    /\ last.result.client = <<>>

\* the quoted items of a rendered list, in the order they appear
RECURSIVE QuotedItems(_, _, _, _)
QuotedItems(s, inside, cur, acc) ==
    IF s = <<>> THEN acc
    ELSE IF Head(s) = "'"
         THEN IF inside THEN QuotedItems(Tail(s), FALSE, <<>>, Append(acc, cur))
              ELSE QuotedItems(Tail(s), TRUE, <<>>, acc)
         ELSE IF inside THEN QuotedItems(Tail(s), TRUE, Append(cur, Head(s)), acc)
              ELSE QuotedItems(Tail(s), FALSE, <<>>, acc)

\* the datasets list-tables is to visit, in order
Scope == IF datasets_filter # <<>> THEN datasets_filter ELSE DatasetIds

\* the tables the backend holds for a dataset of the scope
ScopeTables(d) == IF HasDataset(d) THEN TablesOf(d) ELSE <<>>

\* position k of the expected listing: dataset i of the scope, table j of it
ExpectedTables ==
    LET sizes == [i \in 1..Len(Scope) |-> Len(ScopeTables(Scope[i]))]
        RECURSIVE Before(_)
        Before(i) == IF i <= 1 THEN 0 ELSE Before(i - 1) + sizes[i - 1]
        total == Before(Len(Scope) + 1)
        DatasetAt(k) == CHOOSE i \in 1..Len(Scope) : Before(i) < k /\ k <= Before(i) + sizes[i]
    IN  [k \in 1..total |->
            Scope[DatasetAt(k)] \o <<".">> \o ScopeTables(Scope[DatasetAt(k)])[k - Before(DatasetAt(k))]]

\* C5: a successful list-tables is one TextContent whose quoted items are the
\* tables of the allow-listed datasets (of all datasets when the allow-list is
\* empty), datasets in allow-list order, each dataset's tables in the backend's
\* enumeration order.
C5_ListTablesScopeOrder ==
    (last.called /\ last.name = ListTablesName /\ last.result.caught = NoException) =>
        /\ OneText(last.result)
        /\ Head(TextOf(last.result)) = "["
        /\ TextOf(last.result)[Len(TextOf(last.result))] = "]"
        /\ QuotedItems(TextOf(last.result), FALSE, <<>>, <<>>) = ExpectedTables
        /\ datasets_filter # <<>> =>
               \A item \in Range(QuotedItems(TextOf(last.result), FALSE, <<>>, <<>>)) :
                   \E d \in Range(datasets_filter) : HasPrefix(item, d \o <<".">>)

\* C5 witness: allow-list ["ds1"], backend tables t1, t2 of ds1, rendered in order
C5_Witness ==
    /\ last.called
    /\ last.name = ListTablesName
    /\ datasets_filter = <<Ds1>>
    /\ project = <<Dataset(Ds1, <<T1, T2>>)>>
    /\ last.result.caught = NoException
    /\ last.result.client = <<ClientCall("list_tables", Ds1, <<>>)>>
    /\ TextOf(last.result) =
           <<"[","'","d","s","1",".","t","1","'",","," ","'","d","s","1",".","t","2","'","]">>

----------------------------------------------------------------------------
(* Properties of the sessions of the HTTP binding, checked under Spec *)

Frames(s, kinds) == SelectSeq(session[s].outbox, LAMBDA f : f.kind \in kinds)

AnswerKinds == {"tools/list", "tools/call", "error"}

\* the sequence numbers of the requests connection s answered, in stream order
AnsweredSeqs(s) ==
    LET a == Frames(s, AnswerKinds) IN [i \in 1..Len(a) |-> a[i].seq]

ExpectedCatalog ==
    << [name |-> <<"e","x","e","c","u","t","e","-","q","u","e","r","y">>,
        properties |-> <<[field |-> "query", type |-> "string"]>>,
        required |-> <<"query">>],
       [name |-> <<"l","i","s","t","-","t","a","b","l","e","s">>,
        properties |-> <<>>, required |-> <<>>],
       [name |-> <<"d","e","s","c","r","i","b","e","-","t","a","b","l","e">>,
        properties |-> <<[field |-> "table_name", type |-> "string"]>>,
        required |-> <<"table_name">>] >>

\* C6: in every reachable state every answer to a catalog-list request, in any
\* session, is the three descriptors execute-query (required query), list-tables
\* (no fields), describe-table (required table_name), in that order, with
\* pairwise distinct names, and equals every other catalog answer.
C6_CatalogImmutable ==
    /\ \A s \in SessionIds : \A i \in 1..Len(session[s].outbox) :
          LET f == session[s].outbox[i]
          IN  f.kind = "tools/list" =>
                 /\ f.body = ExpectedCatalog
                 /\ Len(f.body) = 3
                 /\ \A j, k \in 1..Len(f.body) : j # k => f.body[j].name # f.body[k].name
    /\ \A s, t \in SessionIds :
          \A i \in 1..Len(session[s].outbox), j \in 1..Len(session[t].outbox) :
              (session[s].outbox[i].kind = "tools/list" /\ session[t].outbox[j].kind = "tools/list")
                  => session[s].outbox[i].body = session[t].outbox[j].body

\* C6 witness: a catalog answer that follows a failed tool invocation of the session
C6_Witness ==
    \E s \in SessionIds : \E i, j \in 1..Len(session[s].outbox) :
        /\ i < j
        /\ session[s].outbox[i].kind = "tools/call"
        /\ HasPrefix(session[s].outbox[i].body[1].text, <<"E","r","r","o","r",":"," ">>)
        /\ session[s].outbox[j].kind = "tools/list"
        /\ session[s].outbox[j].body = ExpectedCatalog

Rank(state) ==
    CASE state = "None" -> 0
      [] state = "Connecting" -> 1
      [] state = "Initialized" -> 2
      [] state = "Serving" -> 3
      [] state = "Closed" -> 4

Advertisement ==
    [kind |-> "initialize", seq |-> 0,
     body |-> [server_name |-> "bigquery", server_version |-> "0.3.0",
               capabilities |-> [tools |-> TRUE, resources |-> FALSE, prompts |-> FALSE,
                                 experimental |-> {}]]]

C7_State ==
    \A s \in SessionIds :
        /\ session[s].state \in {"None", "Connecting"} => session[s].outbox = <<>>
        /\ session[s].state \in {"Initialized", "Serving"} =>
               /\ Len(Frames(s, {"initialize"})) = 1
               /\ session[s].outbox[1] = Advertisement
        /\ Len(Frames(s, {"initialize"})) <= 1
        /\ session[s].state # "Serving" => session[s].inflight = {}
        /\ session[s].state = "Closed" => session[s].inbox = <<>>

C7_Step ==
    \A s \in SessionIds :
        /\ session'[s].state # session[s].state =>
               \/ Rank(session'[s].state) = Rank(session[s].state) + 1
               \/ session'[s].state = "Closed" /\ Rank(session[s].state) >= 1
        /\ Len(Frames(s, AnswerKinds))' # Len(Frames(s, AnswerKinds)) =>
               session[s].state = "Serving" /\ session'[s].state = "Serving"
        /\ (session'[s].state = "Closed" /\ session[s].state # "Closed") =>
               session'[s].outbox = session[s].outbox
        /\ session[s].state = "Closed" => session'[s] = session[s]

\* C7: a session's state only moves forward along Connecting, Initialized,
\* Serving, Closed; identity and capabilities are advertised exactly once, on
\* becoming Initialized; requests are answered only in Serving; once Closed the
\* session never changes again: no message is queued, processed or answered.
C7_SessionLifecycle == []C7_State /\ [][C7_Step]_vars

\* C7 witness: a Closed session that advertised, answered a request while
\* Serving, and to which a later POST was not delivered
C7_Witness ==
    \E s \in SessionIds :
        /\ session[s].state = "Closed"
        /\ Len(session[s].outbox) = 2
        /\ session[s].outbox[1] = Advertisement
        /\ session[s].outbox[2].kind \in AnswerKinds
        /\ \E i \in 1..Len(http) : http[i].session = s /\ ~http[i].delivered

\* the answers of session s within the global order of answers
EmittedOf(s) == SelectSeq(emitted, LAMBDA q : \E i \in 1..Len(http) : http[i].seq = q /\ http[i].session = s)

\* C8: within a session the answers are emitted in the order the requests were
\* received, none skipped; at most one request is being processed, and it is
\* the one received right after the last answered one.
C8_SessionOrder ==
    \A s \in SessionIds :
        LET a == AnsweredSeqs(s)
        IN  /\ Len(a) <= Len(session[s].accepted)
            /\ a = SubSeq(session[s].accepted, 1, Len(a))
            /\ EmittedOf(s) = a
            /\ Cardinality(session[s].inflight) <= 1
            /\ \A r \in session[s].inflight :
                   /\ Len(a) < Len(session[s].accepted)
                   /\ r.seq = session[s].accepted[Len(a) + 1]

\* C8 witness: a session that answered two requests
C8_Witness ==
    \E s \in SessionIds :
        /\ Len(AnsweredSeqs(s)) = 2
        /\ AnsweredSeqs(s)[1] < AnsweredSeqs(s)[2]

\* Across sessions no order is kept: a request received later, for another
\* connection, is answered first.
C8_CrossSessionInversion ==
    \E s, t \in SessionIds :
        /\ s # t
        /\ AnsweredSeqs(s) # <<>>
        /\ AnsweredSeqs(t) # <<>>
        /\ AnsweredSeqs(s)[1] < AnsweredSeqs(t)[1]
        /\ emitted = <<AnsweredSeqs(t)[1], AnsweredSeqs(s)[1]>>

C9_State ==
    /\ Len(http) = posts
    /\ \A i \in 1..Len(http) :
          /\ http[i].seq = i
          /\ http[i].status = 202
          /\ http[i].body = <<>>
    /\ \A s \in SessionIds : \A i \in 1..Len(AnsweredSeqs(s)) :
          /\ AnsweredSeqs(s)[i] \in 1..Len(http)
          /\ http[AnsweredSeqs(s)[i]].session = s
    /\ \A s \in SessionIds : \A i \in 1..Len(session[s].inbox) :
          http[session[s].inbox[i].seq].session = s

C9_Step ==
    posts' # posts =>
        /\ posts' = posts + 1
        /\ Len(http') = Len(http) + 1
        /\ SubSeq(http', 1, Len(http)) = http
        /\ emitted' = emitted
        /\ LET h == http'[Len(http')]
           IN  /\ \A t \in SessionIds : t # h.session => session'[t] = session[t]
               /\ session'[h.session].outbox = session[h.session].outbox
               /\ session'[h.session].inflight = session[h.session].inflight
               /\ session[h.session].state \in {"Initialized", "Serving"} =>
                      /\ Len(session'[h.session].inbox) = Len(session[h.session].inbox) + 1
                      /\ SubSeq(session'[h.session].inbox, 1, Len(session[h.session].inbox))
                             = session[h.session].inbox
                      /\ session'[h.session].inbox[Len(session'[h.session].inbox)].seq = h.seq

C10_State ==
    \A t \in SessionIds :
        /\ session[t].state = "None" => ENABLED handle_sse_connect(t)
        /\ (session[t].state \in {"Initialized", "Serving"} /\ posts < MaxPosts) =>
               ENABLED handle_post(t, ListRequest)
        /\ (session[t].state = "Serving" /\ session[t].inflight = {} /\ session[t].inbox # <<>>) =>
               ENABLED Receive(t)
        /\ (session[t].state = "Serving" /\ session[t].inflight # {}) => ENABLED Respond(t)

C10_Step ==
    /\ \A s, t \in SessionIds :
          (s # t /\ session'[s] # session[s]) => session'[t] = session[t]
    /\ \A s \in SessionIds :
          session[s].state = "None" /\ session'[s].state # "None" =>
              session'[s] = [session[s] EXCEPT !.state = "Connecting"]
    /\ datasets_filter' = datasets_filter
    /\ project' = project

\* C10: a connection becomes exactly one session; a step of one session, its
\* end included, changes no other session; whatever state the siblings are in,
\* a session that is Serving goes on reading and answering its requests and
\* the process goes on accepting connections and POSTs; the backend facade's
\* configuration and the backend it reads are never written.
C10_SessionIndependence == []C10_State /\ [][C10_Step]_vars

\* C10 witness: a POST for an ended connection was dropped and a request
\* POSTed after it for a sibling connection was answered
C10_Witness ==
    \E s, t \in SessionIds : \E i \in 1..Len(http) :
        /\ s # t
        /\ session[s].state = "Closed"
        /\ http[i].session = s
        /\ ~http[i].delivered
        /\ session[t].state = "Serving"
        /\ \E k \in 1..Len(AnsweredSeqs(t)) : AnsweredSeqs(t)[k] > i

----------------------------------------------------------------------------
(* The two bindings *)

IsPrefix(a, b) == Len(a) <= Len(b) /\ a = SubSeq(b, 1, Len(a))

\* C11: played the same script with the same backend behaviour, the run over
\* the standard streams and the run over the event stream send the same
\* frames in the same order, the advertised server name, version and
\* capabilities first, and make the same backend calls in the same order:
\* at any moment the run that is behind has sent a prefix of the frames and
\* made a prefix of the calls of the run that is ahead.
C11_BindingsAgree ==
    \A s, t \in Runs :
        /\ Len(session[s].outbox) <= Len(session[t].outbox)
               => /\ IsPrefix(session[s].outbox, session[t].outbox)
                  /\ IsPrefix(session[s].calls, session[t].calls)
        /\ (session[s].outbox # <<>> /\ session[t].outbox # <<>>)
               => /\ session[s].outbox[1].kind = "initialize"
                  /\ session[s].outbox[1].body.server_name
                         = session[t].outbox[1].body.server_name
                  /\ session[s].outbox[1].body.server_version
                         = session[t].outbox[1].body.server_version
                  /\ session[s].outbox[1].body.capabilities
                         = session[t].outbox[1].body.capabilities

\* C11 witness: a script of a tool invocation that reaches the backend and a
\* catalog request has been answered in full by both runs, with the same
\* frames and the same backend calls
C11_Witness ==
    /\ Len(script) = 2
    /\ script[1].msg = CallRequest(ListTablesName, None)
    /\ script[2].msg = ListRequest
    /\ \E s, t \in Runs :
          /\ BindingOf(s) = "sse"
          /\ BindingOf(t) = "stdio"
          /\ Len(http) = 2
          /\ Len(session[s].outbox) = 3
          /\ session[s].outbox = session[t].outbox
          /\ session[s].outbox[2].kind = "tools/call"
          /\ session[s].outbox[3].kind = "tools/list"
          /\ session[s].calls # <<>>
          /\ session[s].calls = session[t].calls

----------------------------------------------------------------------------
(* The health routes *)

C12_State ==
    /\ \A path \in HealthPaths : ENABLED handle_health(path)
    /\ health # NoProbe
           => /\ health.path \in HealthPaths
              /\ health.status = 200
              /\ health.body.status = "healthy"
              /\ health.body.service = "bigquery-mcp-server"

C12_Step ==
    health' # health
        => UNCHANGED <<datasets_filter, project, script, last, session, posts,
                       emitted, http>>

\* C12: in every reachable state GET / and GET /health are answered, the
\* answer is always status 200 with the body {"status": "healthy",
\* "service": "bigquery-mcp-server"} whatever the backend did for the tool
\* invocations so far, and the step that answers changes no session, no
\* record of backend calls, no allow-list and no other response.
C12_Health == []C12_State /\ [][C12_Step]_vars

\* C12 witness: /health answered healthy while a session that was served a
\* backend failure is still being served
C12_Witness ==
    /\ health.path = "/health"
    /\ health.status = 200
    /\ health.body.status = "healthy"
    /\ \E s \in SessionIds :
          /\ session[s].state = "Serving"
          /\ session[s].calls # <<>>
          /\ \E i \in 1..Len(session[s].outbox) :
                 /\ session[s].outbox[i].kind = "tools/call"
                 /\ HasPrefix(session[s].outbox[i].body[1].text, ErrorPrefix)

====
